---------------------------- MODULE Spec2Model ----------------------------
(***************************************************************************)
(* SLIP-10 hierarchical deterministic key derivation (src/src/lib.rs).     *)
(*                                                                         *)
(* The crate is generic over an elliptic curve E and uses HMAC-SHA512 as a *)
(* keyed digest.  Both are external to the crate.  They are modelled here  *)
(* by small concrete stand-ins that keep their algebra:                    *)
(*   - the curve group is the subgroup of prime order CurveOrder of the    *)
(*     multiplicative group modulo FieldPrime; the group law ("point       *)
(*     addition") is multiplication modulo FieldPrime, the identity is 1   *)
(*     and "generator * s" is Generator^s;                                 *)
(*   - a digest half is ScalarLen (ChainLen) bytes of ByteBase values      *)
(*     each, instead of 32 bytes of 256 values each;                       *)
(*   - HMAC is a member, chosen by salt, of a family of keyed mixing       *)
(*     functions over byte strings.                                        *)
(* A u32 is kept at its full width as a pair <<high 16 bits, low 16 bits>>.*)
(***************************************************************************)
EXTENDS Integers, Sequences, FiniteSets, TLC

VARIABLES
    salt,       \* which keyed digest function of the family stands for HMAC-SHA512
    pc,         \* "idle", or the loop the call in flight is in
    op,         \* the public operation in flight, or the last one that returned
    args,       \* its arguments
    fn,         \* the shift function derive_child_key_pair chose ("" otherwise)
    key,        \* the key of the HMAC instance `hmac` of the call
    cs,         \* the arguments calculate_shift was called with
    i,          \* the digest `i` of the loop
    msg0,       \* the message of the first HMAC computation of the call
    retryMsgs,  \* the messages of the later ones
    rejected,   \* the digests the loop has rejected
    ret,        \* what the last call returned
    kp,         \* the ExtendedKeyPair the caller holds (Option)
    turn,       \* consistency walk: which call comes next
    pubChild    \* consistency walk: the public derivation's result

vars == <<salt, pc, op, args, fn, key, cs, i, msg0, retryMsgs, rejected, ret,
          kp, turn, pubChild>>

----------------------------------------------------------------------------
(* Bounds of the model.                                                    *)

\* Number of keyed digest functions in the family.
NumSalts == 2
\* How many values on each side of 0, 2^31 and 2^32 - 1 are used as indices.
IndexSpread == 1
\* Number of different contents per seed length.
NumSeedFills == 2

----------------------------------------------------------------------------
(* Option and Result values.                                               *)

None == <<>>
Some(x) == <<x>>
Ok(v) == [ok |-> TRUE, value |-> <<v>>, err |-> ""]
Err(e) == [ok |-> FALSE, value |-> <<>>, err |-> e]
NoRet == [ok |-> FALSE, value |-> <<>>, err |-> "none"]

----------------------------------------------------------------------------
(* Bytes and integers.                                                     *)

\* The number of values of one byte of a digest, a scalar or a point.
ByteBase == 4
\* Bytes of a serialized scalar, and of the left half of a digest.
ScalarLen == 2
\* Bytes of a chain code, and of the right half of a digest.
ChainLen == 2
\* Bytes of the x coordinate of a compressed point.
PointLen == 3

RECURSIVE ToBe(_, _, _)
\* v as len big-endian digits of the given base.
ToBe(v, len, base) ==
    IF len = 0 THEN <<>>
    ELSE Append(ToBe(v \div base, len - 1, base), v % base)

RECURSIVE FromBe(_, _)
\* The integer a big-endian digit string stands for.
FromBe(bytes, base) ==
    IF Len(bytes) = 0 THEN 0
    ELSE FromBe(SubSeq(bytes, 1, Len(bytes) - 1), base) * base
         + bytes[Len(bytes)]

\* A u32 is <<high half, low half>>, each half in 0 .. 2^16 - 1.
U32(hi, lo) == <<hi, lo>>
U32Ge(a, b) == a[1] > b[1] \/ (a[1] = b[1] /\ a[2] >= b[2])

\* pub const H: u32 = 1 << 31
H == U32(2^15, 0)
\* u32::MAX
U32Max == U32(2^16 - 1, 2^16 - 1)

\* Variant of u32::to_be_bytes: the bytes least significant first.
U32LeBytes(v) ==
    <<v[2] % 256, v[2] \div 256, v[1] % 256, v[1] \div 256>>
\* u32::to_be_bytes
U32ToBeBytes(v) ==
    <<v[1] \div 256, v[1] % 256, v[2] \div 256, v[2] % 256>>

----------------------------------------------------------------------------
(* The curve E: scalars are 0 .. CurveOrder - 1, points are the powers of  *)
(* Generator modulo FieldPrime.                                            *)

CurveOrder == 13
FieldPrime == 53
Generator == 16
\* Point::zero(), the identity of the group.
PointZero == 1

RECURSIVE PowMod(_, _, _)
PowMod(b, e, m) == IF e = 0 THEN 1 ELSE (b * PowMod(b, e - 1, m)) % m

\* Point::generator() * s
GeneratorMul(s) == PowMod(Generator, s, FieldPrime)
\* Point + Point
PointAdd(p, q) == (p * q) % FieldPrime
\* Point::is_zero
PointIsZero(p) == p = PointZero
\* Scalar + Scalar
ScalarAdd(a, b) == (a + b) % CurveOrder

\* Scalar::from_be_bytes: fails when the integer is not below the curve order.
ScalarFromBeBytes(bytes) ==
    LET v == FromBe(bytes, ByteBase)
    IN  IF Len(bytes) = ScalarLen /\ v < CurveOrder THEN Ok(v) ELSE Err("InvalidScalar")

\* Scalar::to_be_bytes
ScalarToBeBytes(s) == ToBe(s, ScalarLen, ByteBase)

\* Point::to_bytes(true): a parity byte, then the coordinate, big-endian.
PointToBytes(p) == <<2 + (p % 2)>> \o ToBe(p, PointLen, ByteBase)

ChainCodes == {ToBe(c, ChainLen, ByteBase) : c \in 0 .. ByteBase^ChainLen - 1}

----------------------------------------------------------------------------
(* HMAC-SHA512.                                                            *)

DigestLen == ScalarLen + ChainLen

RECURSIVE MixPow(_)
\* 31^e modulo 32749, by squaring.
MixPow(e) ==
    IF e = 0 THEN 1
    ELSE LET half == MixPow(e \div 2)
         IN  (((half * half) % 32749) * (IF e % 2 = 1 THEN 31 ELSE 1)) % 32749

RECURSIVE MixPoly(_)
\* The sum of (bytes[k] + 1) * 31^(Len(bytes) - k) modulo 32749, by halves.
MixPoly(bytes) ==
    IF Len(bytes) = 0 THEN 0
    ELSE IF Len(bytes) = 1 THEN bytes[1] + 1
    ELSE LET m == Len(bytes) \div 2
         IN  (MixPoly(SubSeq(bytes, 1, m)) * MixPow(Len(bytes) - m)
              + MixPoly(SubSeq(bytes, m + 1, Len(bytes)))) % 32749

\* The mixing state after the bytes, one after the other, went into h:
\* each byte b takes h to (h * 31 + b + 1) modulo 32749.
Absorb(h, bytes) == (h * MixPow(Len(bytes)) + MixPoly(bytes)) % 32749

\* HmacSha512::new_from_slice(k).chain_update(m).finalize().into_bytes()
HmacSha512(k, m) ==
    LET h == Absorb(Absorb(Absorb(17 + salt, k), <<255>>), m)
        f == (h * h + 7 * h + 3) % 32749
    IN  ToBe(f % ByteBase^DigestLen, DigestLen, ByteBase)

\* &i[..32]
ILeft(d) == SubSeq(d, 1, ScalarLen)
\* i[32..]
IRight(d) == SubSeq(d, ScalarLen + 1, Len(d))


----------------------------------------------------------------------------
(* Child indexes.                                                          *)

HardenedIndex(v) == [ty |-> "HardenedIndex", v |-> v]
NonHardenedIndex(v) == [ty |-> "NonHardenedIndex", v |-> v]
\* ops::Deref for HardenedIndex, NonHardenedIndex
Deref(index) == index.v

\* HardenedIndex::MIN, ::MAX and NonHardenedIndex::MIN, ::MAX
HardenedIndexMIN == HardenedIndex(H)
HardenedIndexMAX == HardenedIndex(U32Max)
NonHardenedIndexMIN == NonHardenedIndex(U32(0, 0))
NonHardenedIndexMAX == NonHardenedIndex(U32(H[1] - 1, 2^16 - 1))

\* Variant of From<u32> for ChildIndex: the pattern H.. taken to exclude H.
ChildIndexFromOffByOne(value) ==
    IF U32Ge(value, H) /\ value # H
    THEN [variant |-> "Hardened", index |-> HardenedIndex(value)]
    ELSE [variant |-> "NonHardened", index |-> NonHardenedIndex(value)]
\* From<u32> for ChildIndex
ChildIndexFrom(value) ==
    IF U32Ge(value, H)
    THEN [variant |-> "Hardened", index |-> HardenedIndex(value)]
    ELSE [variant |-> "NonHardened", index |-> NonHardenedIndex(value)]

\* TryFrom<u32> for HardenedIndex
HardenedIndexTryFrom(value) ==
    LET c == ChildIndexFrom(value)
    IN  IF c.variant = "Hardened" THEN Ok(c.index) ELSE Err("OutOfRange")

\* TryFrom<u32> for NonHardenedIndex
NonHardenedIndexTryFrom(value) ==
    LET c == ChildIndexFrom(value)
    IN  IF c.variant = "NonHardened" THEN Ok(c.index) ELSE Err("OutOfRange")

\* The u32 values used as inputs: around 0, around 2^31 and below 2^32.
U32Samples ==
    {U32(0, j) : j \in 0 .. IndexSpread}
    \cup {U32(H[1] - 1, 2^16 - j) : j \in 1 .. IndexSpread}
    \cup {U32(H[1], j) : j \in 0 .. IndexSpread}
    \cup {U32(2^16 - 1, 2^16 - j) : j \in 1 .. IndexSpread}

----------------------------------------------------------------------------
(* Extended keys.                                                          *)

\* From<&ExtendedSecretKey<E>> for ExtendedPublicKey<E>
ExtendedPublicKeyFrom(sk) ==
    [public_key |-> GeneratorMul(sk.secret_key), chain_code |-> sk.chain_code]

\* From<ExtendedSecretKey<E>> for ExtendedKeyPair<E>
ExtendedKeyPairFrom(secret_key) ==
    [public_key |-> ExtendedPublicKeyFrom(secret_key), secret_key |-> secret_key]

\* ExtendedKeyPair::chain_code (its debug_assert_eq is chain_code_asserts)
chain_code(self) == self.public_key.chain_code
chain_code_asserts(self) == self.public_key.chain_code = self.secret_key.chain_code

CurveTypes == {"Secp256k1", "Secp256r1"}
\* "Bitcoin seed"
BitcoinSeed == <<66, 105, 116, 99, 111, 105, 110, 32, 115, 101, 101, 100>>
\* "Nist256p1 seed"
Nist256p1Seed == <<78, 105, 115, 116, 50, 53, 54, 112, 49, 32, 115, 101, 101, 100>>

\* let curve = match curve_type { ... }
CurveKey(curve_type) ==
    IF curve_type = "Secp256k1" THEN BitcoinSeed ELSE Nist256p1Seed

MinSeedLen == 16
MaxSeedLen == 64

\* The seeds used as inputs: of lengths at and around the limits.
SeedLens == {MinSeedLen - 1, MinSeedLen, MaxSeedLen, MaxSeedLen + 1}
SeedOf(len, fill) == [k \in 1 .. len |-> (fill * 5 + k * k + 1) % 256]
Seeds == {SeedOf(len, fill) : len \in SeedLens, fill \in 0 .. NumSeedFills - 1}

----------------------------------------------------------------------------
(* The state after construction: no call made, no key held.                *)

EmptyFrame ==
    /\ fn = ""
    /\ key = None
    /\ cs = None
    /\ i = None
    /\ msg0 = None
    /\ retryMsgs = {}
    /\ rejected = {}

Init ==
    /\ salt \in 0 .. NumSalts - 1
    /\ pc = "idle"
    /\ op = ""
    /\ args = None
    /\ EmptyFrame
    /\ ret = NoRet
    /\ kp = None
    /\ turn = "free"
    /\ pubChild = None

\* A call begins: the locals of the previous one are gone.
NoFrame ==
    /\ fn' = ""
    /\ key' = None
    /\ cs' = None
    /\ i' = None
    /\ msg0' = None
    /\ retryMsgs' = {}
    /\ rejected' = {}

----------------------------------------------------------------------------
(* Index conversions, as operations of the caller.                         *)

ChildIndex_from(value) ==
    /\ pc = "idle"
    /\ op' = "ChildIndex::from"
    /\ args' = Some([value |-> value])
    /\ ret' = Ok(ChildIndexFrom(value))
    /\ NoFrame
    /\ UNCHANGED <<salt, pc, kp>>

HardenedIndex_try_from(value) ==
    /\ pc = "idle"
    /\ op' = "HardenedIndex::try_from"
    /\ args' = Some([value |-> value])
    /\ ret' = HardenedIndexTryFrom(value)
    /\ NoFrame
    /\ UNCHANGED <<salt, pc, kp>>

NonHardenedIndex_try_from(value) ==
    /\ pc = "idle"
    /\ op' = "NonHardenedIndex::try_from"
    /\ args' = Some([value |-> value])
    /\ ret' = NonHardenedIndexTryFrom(value)
    /\ NoFrame
    /\ UNCHANGED <<salt, pc, kp>>

----------------------------------------------------------------------------
(* derive_master_key.                                                      *)

\* if let Ok(mut sk) = Scalar::from_be_bytes(i_left) { if !ct_eq(&sk, &Scalar::zero())
MasterAccepts(d) ==
    LET sk == ScalarFromBeBytes(ILeft(d))
    IN  sk.ok /\ ~(sk.value[1] = 0)

\* Variant of the retry message: only i_right fed back.
MasterRetryRightOnly(d) == IRight(d)
\* hmac.clone().chain_update(&i[..])
MasterRetryMsg(d) == d

\* Variant of the length test: both limits excluded.
SeedLenOkExclusive(seed) == MinSeedLen < Len(seed) /\ Len(seed) < MaxSeedLen
\* 16 <= seed.len() && seed.len() <= 64
SeedLenOk(seed) == MinSeedLen <= Len(seed) /\ Len(seed) <= MaxSeedLen

\* The call up to its loop.
derive_master_key(curve_type, seed) ==
    /\ pc = "idle"
    /\ op' = "derive_master_key"
    /\ args' = Some([curve_type |-> curve_type, seed |-> seed])
    /\ fn' = ""
    /\ cs' = None
    /\ retryMsgs' = {}
    /\ rejected' = {}
    /\ IF ~SeedLenOk(seed)
       THEN /\ ret' = Err("InvalidLength")
            /\ pc' = "idle"
            /\ key' = None
            /\ i' = None
            /\ msg0' = None
       ELSE LET curve == CurveKey(curve_type)
            IN  /\ key' = Some(curve)
                /\ msg0' = Some(seed)
                /\ i' = Some(HmacSha512(curve, seed))
                /\ pc' = "master_loop"
                /\ ret' = NoRet
    /\ UNCHANGED <<salt, kp>>

\* One iteration of its loop.
master_loop ==
    /\ pc = "master_loop"
    /\ IF MasterAccepts(i[1])
       THEN LET sk == [secret_key |-> ScalarFromBeBytes(ILeft(i[1])).value[1],
                       chain_code |-> IRight(i[1])]
            IN  /\ ret' = Ok(sk)
                /\ pc' = "idle"
                /\ UNCHANGED <<i, retryMsgs, rejected>>
       ELSE /\ i' = Some(HmacSha512(key[1], MasterRetryMsg(i[1])))
            /\ retryMsgs' = retryMsgs \cup {MasterRetryMsg(i[1])}
            /\ rejected' = rejected \cup {i[1]}
            /\ UNCHANGED <<ret, pc>>
    /\ UNCHANGED <<salt, op, args, fn, key, cs, msg0, kp>>

\* ExtendedKeyPair::from(secret_key), of the master key just derived.
ExtendedKeyPair_from ==
    /\ pc = "idle"
    /\ op = "derive_master_key"
    /\ ret.ok
    /\ op' = "ExtendedKeyPair::from"
    /\ args' = Some([secret_key |-> ret.value[1]])
    /\ kp' = Some(ExtendedKeyPairFrom(ret.value[1]))
    /\ ret' = Ok(ExtendedKeyPairFrom(ret.value[1]))
    /\ NoFrame
    /\ UNCHANGED <<salt, pc>>

----------------------------------------------------------------------------
(* Child derivation.                                                       *)

\* [0x00] || parent secret key, big-endian || child index, big-endian
HardenedMsg(parent_key, child_index) ==
    <<0>> \o ScalarToBeBytes(parent_key.secret_key.secret_key)
          \o U32ToBeBytes(Deref(child_index))

\* parent public key, compressed || child index, big-endian
PublicMsg(parent_public_key, child_index) ==
    PointToBytes(parent_public_key.public_key) \o U32ToBeBytes(Deref(child_index))

\* Variant of the retry message: the whole digest in place of i_right.
ShiftRetryMsgFullDigest(d, child_index) ==
    <<1>> \o d \o U32ToBeBytes(child_index)
\* [0x01] || i_right || child index, big-endian
ShiftRetryMsg(d, child_index) ==
    <<1>> \o IRight(d) \o U32ToBeBytes(child_index)

\* parent_public_key.public_key + Point::generator() * &shift
ChildPk(parent_public_key, shift) ==
    PointAdd(parent_public_key.public_key, GeneratorMul(shift))

\* Variant of the acceptance test: child_pk.is_zero() not looked at.
ShiftAcceptsIdentity(parent_public_key, d) ==
    ScalarFromBeBytes(ILeft(d)).ok
\* if let Ok(shift) = Scalar::from_be_bytes(i_left) { ... if !child_pk.is_zero()
ShiftAccepts(parent_public_key, d) ==
    LET shift == ScalarFromBeBytes(ILeft(d))
    IN  /\ shift.ok
        /\ ~PointIsZero(ChildPk(parent_public_key, shift.value[1]))

\* The DerivedShift calculate_shift returns for an accepted digest.
DerivedShiftOf(parent_public_key, d) ==
    LET shift == ScalarFromBeBytes(ILeft(d)).value[1]
    IN  [shift |-> shift,
         child_public_key |->
             [public_key |-> ChildPk(parent_public_key, shift),
              chain_code |-> IRight(d)]]

\* Variant of the returned pair: the secret half keeps the parent's chain code.
ChildKeyPairOfStaleChain(parent_key, shift) ==
    [secret_key |->
         [secret_key |-> ScalarAdd(parent_key.secret_key.secret_key, shift.shift),
          chain_code |-> parent_key.secret_key.chain_code],
     public_key |-> shift.child_public_key]
\* Variant of the returned pair: the public half keeps the parent's point.
ChildKeyPairOfParentPublic(parent_key, shift) ==
    [secret_key |->
         [secret_key |-> ScalarAdd(parent_key.secret_key.secret_key, shift.shift),
          chain_code |-> shift.child_public_key.chain_code],
     public_key |-> [public_key |-> parent_key.public_key.public_key,
                     chain_code |-> shift.child_public_key.chain_code]]
\* derive_child_key_pair after the shift is known.
ChildKeyPairOf(parent_key, shift) ==
    [secret_key |->
         [secret_key |-> ScalarAdd(parent_key.secret_key.secret_key, shift.shift),
          chain_code |-> shift.child_public_key.chain_code],
     public_key |-> shift.child_public_key]

\* derive_hardened_shift up to its call of calculate_shift.
hardened_shift_call(parent_key, child_index) ==
    IF ~chain_code_asserts(parent_key)
    THEN /\ pc' = "panic"
         /\ ret' = NoRet
         /\ key' = None
         /\ cs' = None
         /\ i' = None
         /\ msg0' = None
    ELSE LET hmac == chain_code(parent_key)
             m == HardenedMsg(parent_key, child_index)
         IN  /\ key' = Some(hmac)
             /\ msg0' = Some(m)
             /\ i' = Some(HmacSha512(hmac, m))
             /\ cs' = Some([hmac |-> hmac,
                            parent_public_key |-> parent_key.public_key,
                            child_index |-> Deref(child_index)])
             /\ pc' = "calculate_shift"
             /\ ret' = NoRet

\* derive_public_shift up to its call of calculate_shift.
public_shift_call(parent_public_key, child_index) ==
    LET hmac == parent_public_key.chain_code
        m == PublicMsg(parent_public_key, child_index)
    IN  /\ key' = Some(hmac)
        /\ msg0' = Some(m)
        /\ i' = Some(HmacSha512(hmac, m))
        /\ cs' = Some([hmac |-> hmac,
                       parent_public_key |-> parent_public_key,
                       child_index |-> Deref(child_index)])
        /\ pc' = "calculate_shift"
        /\ ret' = NoRet

derive_child_key_pair(child_index) ==
    /\ pc = "idle"
    /\ kp # None
    /\ op' = "derive_child_key_pair"
    /\ args' = Some([parent_key |-> kp[1], child_index |-> child_index])
    /\ retryMsgs' = {}
    /\ rejected' = {}
    /\ LET index == ChildIndexFrom(child_index)
       IN  IF index.variant = "Hardened"
           THEN /\ fn' = "derive_hardened_shift"
                /\ hardened_shift_call(kp[1], index.index)
           ELSE /\ fn' = "derive_public_shift"
                /\ public_shift_call(kp[1].public_key, index.index)
    /\ UNCHANGED <<salt, kp>>

\* The extended public keys a caller has at hand: public_key() of the pair.
PublicKeysAtHand == IF kp # None THEN {kp[1].public_key} ELSE {}

derive_child_public_key(parent_public_key, child_index) ==
    /\ pc = "idle"
    /\ child_index.ty = "NonHardenedIndex"
    /\ op' = "derive_child_public_key"
    /\ args' = Some([parent_public_key |-> parent_public_key,
                     child_index |-> child_index])
    /\ fn' = "derive_public_shift"
    /\ retryMsgs' = {}
    /\ rejected' = {}
    /\ public_shift_call(parent_public_key, child_index)
    /\ UNCHANGED <<salt, kp>>

derive_hardened_shift(child_index) ==
    /\ pc = "idle"
    /\ kp # None
    /\ child_index.ty = "HardenedIndex"
    /\ op' = "derive_hardened_shift"
    /\ args' = Some([parent_key |-> kp[1], child_index |-> child_index])
    /\ fn' = "derive_hardened_shift"
    /\ retryMsgs' = {}
    /\ rejected' = {}
    /\ hardened_shift_call(kp[1], child_index)
    /\ UNCHANGED <<salt, kp>>

derive_public_shift(parent_public_key, child_index) ==
    /\ pc = "idle"
    /\ child_index.ty = "NonHardenedIndex"
    /\ op' = "derive_public_shift"
    /\ args' = Some([parent_public_key |-> parent_public_key,
                     child_index |-> child_index])
    /\ fn' = "derive_public_shift"
    /\ retryMsgs' = {}
    /\ rejected' = {}
    /\ public_shift_call(parent_public_key, child_index)
    /\ UNCHANGED <<salt, kp>>

\* One iteration of the loop of calculate_shift; on acceptance the shift goes
\* back to the operation that asked for it, which returns in the same step.
calculate_shift ==
    /\ pc = "calculate_shift"
    /\ LET c == cs[1]
       IN  IF ShiftAccepts(c.parent_public_key, i[1])
           THEN LET shift == DerivedShiftOf(c.parent_public_key, i[1])
                IN  /\ pc' = "idle"
                    /\ UNCHANGED <<i, retryMsgs, rejected>>
                    /\ IF op = "derive_child_key_pair"
                       THEN /\ ret' = Ok(ChildKeyPairOf(args[1].parent_key, shift))
                            /\ kp' = Some(ChildKeyPairOf(args[1].parent_key, shift))
                       ELSE IF op = "derive_child_public_key"
                       THEN /\ ret' = Ok(shift.child_public_key)
                            /\ UNCHANGED kp
                       ELSE /\ ret' = Ok(shift)
                            /\ UNCHANGED kp
           ELSE /\ i' = Some(HmacSha512(c.hmac, ShiftRetryMsg(i[1], c.child_index)))
                /\ retryMsgs' = retryMsgs \cup {ShiftRetryMsg(i[1], c.child_index)}
                /\ rejected' = rejected \cup {i[1]}
                /\ UNCHANGED <<pc, ret, kp>>
    /\ UNCHANGED <<salt, op, args, fn, key, cs, msg0>>

----------------------------------------------------------------------------
(* The caller: any operation, with any of the inputs.                      *)

\* The indexes a caller can hold: the type's constants and what try_from gives.
HardenedIndexes ==
    {HardenedIndexMIN, HardenedIndexMAX}
    \cup {HardenedIndexTryFrom(v).value[1] :
            v \in {u \in U32Samples : HardenedIndexTryFrom(u).ok}}
NonHardenedIndexes ==
    {NonHardenedIndexMIN, NonHardenedIndexMAX}
    \cup {NonHardenedIndexTryFrom(v).value[1] :
            v \in {u \in U32Samples : NonHardenedIndexTryFrom(u).ok}}

Next ==
    /\ \/ \E v \in U32Samples : ChildIndex_from(v)
       \/ \E v \in U32Samples : HardenedIndex_try_from(v)
       \/ \E v \in U32Samples : NonHardenedIndex_try_from(v)
       \/ \E c \in CurveTypes, seed \in Seeds : derive_master_key(c, seed)
       \/ master_loop
       \/ ExtendedKeyPair_from
       \/ \E v \in U32Samples : derive_child_key_pair(v)
       \/ \E p \in PublicKeysAtHand, x \in NonHardenedIndexes :
              derive_child_public_key(p, x)
       \/ \E x \in HardenedIndexes : derive_hardened_shift(x)
       \/ \E p \in PublicKeysAtHand, x \in NonHardenedIndexes :
              derive_public_shift(p, x)
       \/ calculate_shift
    /\ UNCHANGED <<turn, pubChild>>

Spec == Init /\ [][Next]_vars

----------------------------------------------------------------------------
(* The consistency walk: from any valid key pair, derive the public        *)
(* child of public_key() with derive_child_public_key, then the child pair *)
(* of the same index with derive_child_key_pair, compare, and go on from   *)
(* the child.                                                              *)

ValidKeyPairs ==
    {ExtendedKeyPairFrom([secret_key |-> s, chain_code |-> c]) :
        s \in 1 .. CurveOrder - 1, c \in ChainCodes}

InitPub ==
    /\ salt \in 0 .. NumSalts - 1
    /\ pc = "idle"
    /\ op = ""
    /\ args = None
    /\ EmptyFrame
    /\ ret = NoRet
    /\ kp \in {Some(k) : k \in ValidKeyPairs}
    /\ turn = "pub"
    /\ pubChild = None

consistency_pub ==
    /\ turn = "pub"
    /\ \E x \in NonHardenedIndexes : derive_child_public_key(kp[1].public_key, x)
    /\ turn' = "pair"
    /\ UNCHANGED pubChild

consistency_pair ==
    /\ turn = "pair"
    /\ pc = "idle"
    /\ derive_child_key_pair(Deref(args[1].child_index))
    /\ pubChild' = Some(ret.value[1])
    /\ turn' = "compare"

consistency_next ==
    /\ turn = "compare"
    /\ pc = "idle"
    /\ turn' = "pub"
    /\ pubChild' = None
    /\ UNCHANGED <<salt, pc, op, args, fn, key, cs, i, msg0, retryMsgs,
                   rejected, ret, kp>>

NextPub ==
    \/ consistency_pub
    \/ consistency_pair
    \/ calculate_shift /\ UNCHANGED <<turn, pubChild>>
    \/ consistency_next

SpecPub == InitPub /\ [][NextPub]_vars

----------------------------------------------------------------------------
(* What the properties are stated with.                                    *)

Returned(o) == op = o /\ pc = "idle" /\ ret.ok

ShiftOps == {"derive_child_key_pair", "derive_child_public_key",
             "derive_hardened_shift", "derive_public_shift"}

\* The parent public key and the raw index of the child derivation in `args`.
ArgParentPublicKey ==
    IF op \in {"derive_child_key_pair", "derive_hardened_shift"}
    THEN args[1].parent_key.public_key
    ELSE args[1].parent_public_key
ArgIndex ==
    IF op = "derive_child_key_pair"
    THEN args[1].child_index
    ELSE args[1].child_index.v

\* i >= 2^31, for a u32 i.
IsHigh(v) == v[1] >= 2^15

\* The four bytes of a u32, most significant first.
RefIndexBytes(v) == ToBe(v[1], 2, 256) \o ToBe(v[2], 2, 256)

\* The left half of a digest read as a big-endian integer, and its right half.
RefLeft(d) == FromBe(SubSeq(d, 1, ScalarLen), ByteBase)
RefRight(d) == SubSeq(d, ScalarLen + 1, ScalarLen + ChainLen)

RECURSIVE RefMasterChain(_, _, _)
\* d0 = hmac(k, seed), d(n+1) = hmac(k, d(n)).
RefMasterChain(k, seed, n) ==
    IF n = 0 THEN HmacSha512(k, seed)
    ELSE HmacSha512(k, RefMasterChain(k, seed, n - 1))

RefMasterOk(d) == RefLeft(d) < CurveOrder /\ RefLeft(d) # 0

RECURSIVE RefShiftChain(_, _, _, _)
\* d0 = hmac(k, m), d(n+1) = hmac(k, 0x01 || I_R of d(n) || index).
RefShiftChain(k, m, index, n) ==
    IF n = 0 THEN HmacSha512(k, m)
    ELSE HmacSha512(k, <<1>> \o RefRight(RefShiftChain(k, m, index, n - 1))
                            \o RefIndexBytes(index))

RefChildPoint(parent_point, d) ==
    (parent_point * PowMod(Generator, RefLeft(d), FieldPrime)) % FieldPrime

RefShiftOk(parent_point, d) ==
    RefLeft(d) < CurveOrder /\ RefChildPoint(parent_point, d) # PointZero

----------------------------------------------------------------------------
(* C1: every key pair the caller holds, made by ExtendedKeyPair::from and  *)
(* any number of derive_child_key_pair calls, has public_key.public_key =  *)
(* generator * secret_key.secret_key and the same chain code in both       *)
(* halves.                                                                 *)
KeyPairConsistency ==
    kp # None =>
        /\ kp[1].public_key.public_key
               = PowMod(Generator, kp[1].secret_key.secret_key, FieldPrime)
        /\ kp[1].public_key.chain_code = kp[1].secret_key.chain_code

\* A hardened child whose secret key wrapped around the curve order.
KeyPairConsistencyWitness ==
    /\ Returned("derive_child_key_pair")
    /\ fn = "derive_hardened_shift"
    /\ kp[1].secret_key.secret_key < args[1].parent_key.secret_key.secret_key
    /\ kp[1].secret_key.chain_code # args[1].parent_key.secret_key.chain_code

(* C2: for a valid key pair and a non-hardened index,                      *)
(* derive_child_public_key(kp.public_key(), i) equals                      *)
(* derive_child_key_pair(kp, i).public_key(), point and chain code.        *)
PublicSecretConsistency ==
    (turn = "compare" /\ pc = "idle") =>
        /\ pubChild # None
        /\ pubChild[1].public_key = kp[1].public_key.public_key
        /\ pubChild[1].chain_code = kp[1].public_key.chain_code

\* Both derivations returned after their loops retried.
PublicSecretConsistencyWitness ==
    /\ turn = "compare"
    /\ pc = "idle"
    /\ rejected # {}
    /\ pubChild = Some(kp[1].public_key)
    /\ kp[1].public_key # args[1].parent_key.public_key

(* C3: the secret key derive_master_key returns is not zero; a key pair    *)
(* has a non-zero secret key and a public key that is not the identity;    *)
(* the child public key any shift or public derivation returns is not the  *)
(* identity.                                                               *)
NonZeroInvariants ==
    /\ Returned("derive_master_key") => ret.value[1].secret_key # 0
    /\ kp # None =>
           /\ kp[1].secret_key.secret_key # 0
           /\ kp[1].public_key.public_key # PointZero
    /\ (Returned("derive_hardened_shift") \/ Returned("derive_public_shift")) =>
           ret.value[1].child_public_key.public_key # PointZero
    /\ Returned("derive_child_public_key") =>
           ret.value[1].public_key # PointZero

\* A child pair came back after a digest was rejected for giving the identity.
NonZeroInvariantsWitness ==
    /\ Returned("derive_child_key_pair")
    /\ \E d \in rejected :
           /\ RefLeft(d) < CurveOrder
           /\ RefChildPoint(ArgParentPublicKey.public_key, d) = PointZero

(* C4: derive_master_key returns Err(InvalidLength) exactly when the seed  *)
(* length is outside 16..64, then without any HMAC computation and with no *)
(* key; it returns no other error.                                         *)
SeedLengthValidation ==
    op = "derive_master_key" =>
        LET len == Len(args[1].seed)
            bad == len < MinSeedLen \/ len > MaxSeedLen
        IN  /\ bad <=> (pc = "idle" /\ ret = Err("InvalidLength"))
            /\ bad => (msg0 = None /\ retryMsgs = {} /\ i = None /\ key = None)
            /\ ~bad => (msg0 = Some(args[1].seed)
                        /\ (pc = "master_loop" \/ Returned("derive_master_key")))
            /\ (pc = "idle" /\ ~ret.ok) => ret.err = "InvalidLength"

\* A seed of 65 bytes was refused for the curve secp256r1.
SeedLengthValidationWitness ==
    /\ op = "derive_master_key"
    /\ Len(args[1].seed) = 65
    /\ args[1].curve_type = "Secp256r1"
    /\ ret = Err("InvalidLength")

(* C5: ChildIndex::from(i) is Hardened iff i >= 2^31 and keeps i;          *)
(* HardenedIndex::try_from(i) succeeds iff i >= 2^31 and                   *)
(* NonHardenedIndex::try_from(i) iff i < 2^31, each failing with           *)
(* OutOfRange on the other half; every index so made is in its half.       *)
IndexClassification ==
    /\ op = "ChildIndex::from" =>
           LET v == args[1].value
               c == ret.value[1]
           IN  /\ ret.ok
               /\ c.variant \in {"Hardened", "NonHardened"}
               /\ c.variant = "Hardened" <=> IsHigh(v)
               /\ c.index.ty = "HardenedIndex" <=> c.variant = "Hardened"
               /\ c.index.ty = "NonHardenedIndex" <=> c.variant = "NonHardened"
               /\ c.index.v = v
    /\ op = "HardenedIndex::try_from" =>
           LET v == args[1].value
           IN  /\ ret.ok <=> IsHigh(v)
               /\ ret.ok => ret.value[1] = [ty |-> "HardenedIndex", v |-> v]
               /\ ~ret.ok => ret = Err("OutOfRange")
    /\ op = "NonHardenedIndex::try_from" =>
           LET v == args[1].value
           IN  /\ ret.ok <=> ~IsHigh(v)
               /\ ret.ok => ret.value[1] = [ty |-> "NonHardenedIndex", v |-> v]
               /\ ~ret.ok => ret = Err("OutOfRange")
    /\ \A x \in HardenedIndexes : IsHigh(x.v) /\ x.v[1] < 2^16 /\ x.v[2] < 2^16
    /\ \A x \in NonHardenedIndexes : ~IsHigh(x.v)
    /\ HardenedIndexMIN.v = <<2^15, 0>>
    /\ HardenedIndexMAX.v = <<2^16 - 1, 2^16 - 1>>
    /\ NonHardenedIndexMIN.v = <<0, 0>>
    /\ NonHardenedIndexMAX.v = <<2^15 - 1, 2^16 - 1>>

\* 2^31 itself was accepted as a hardened index.
IndexClassificationWitness ==
    /\ op = "HardenedIndex::try_from"
    /\ args[1].value = <<2^15, 0>>
    /\ ret.ok

(* C6: derive_public_shift and derive_child_public_key only ever run with  *)
(* an index below 2^31, on the parent's public key and chain code;         *)
(* derive_child_key_pair sends an index to derive_hardened_shift iff it is *)
(* at least 2^31, and the message of that one holds the parent secret key. *)
HardenedExclusivity ==
    op \in ShiftOps =>
        /\ fn \in {"derive_hardened_shift", "derive_public_shift"}
        /\ op \in {"derive_child_public_key", "derive_public_shift"} =>
               fn = "derive_public_shift"
        /\ op = "derive_hardened_shift" => fn = "derive_hardened_shift"
        /\ fn = "derive_hardened_shift" <=> IsHigh(ArgIndex)
        /\ (fn = "derive_public_shift" /\ pc # "panic") =>
               /\ ~IsHigh(cs[1].child_index)
               /\ key = Some(ArgParentPublicKey.chain_code)
               /\ msg0 = Some(PointToBytes(ArgParentPublicKey.public_key)
                              \o RefIndexBytes(ArgIndex))
        /\ (fn = "derive_hardened_shift" /\ pc # "panic") =>
               /\ IsHigh(cs[1].child_index)
               /\ FromBe(SubSeq(msg0[1], 2, 1 + ScalarLen), ByteBase)
                      = args[1].parent_key.secret_key.secret_key

\* derive_child_key_pair took index 2^31 through derive_hardened_shift.
HardenedExclusivityWitness ==
    /\ Returned("derive_child_key_pair")
    /\ fn = "derive_hardened_shift"
    /\ args[1].child_index = <<2^15, 0>>

(* C8: for a seed of valid length derive_master_key returns the secret key *)
(* I_L and the chain code I_R of the first digest, in the chain            *)
(* d0 = hmac(key, seed), d(n+1) = hmac(key, d(n)) under the key of the     *)
(* curve type, whose I_L is a big-endian scalar below the order and not    *)
(* zero.                                                                   *)
MasterRejectionSampling ==
    Returned("derive_master_key") =>
        LET k == IF args[1].curve_type = "Secp256k1"
                 THEN BitcoinSeed ELSE Nist256p1Seed
            n == Cardinality(rejected)
            d == RefMasterChain(k, args[1].seed, n)
        IN  /\ key = Some(k)
            /\ ret.value[1] = [secret_key |-> RefLeft(d), chain_code |-> RefRight(d)]
            /\ RefMasterOk(d)
            /\ \A m \in 0 .. n - 1 :
                   /\ ~RefMasterOk(RefMasterChain(k, args[1].seed, m))
                   /\ RefMasterChain(k, args[1].seed, m) \in rejected

\* A master key came back from the third digest or a later one, after a
\* digest with I_L = 0 was rejected.
MasterRejectionSamplingWitness ==
    /\ Returned("derive_master_key")
    /\ Cardinality(rejected) >= 2
    /\ \E d \in rejected : RefLeft(d) = 0

(* C9: calculate_shift returns the shift I_L and the child public key      *)
(* (parent public key + generator * I_L, chain code I_R) of the first      *)
(* digest, in the chain from the initial digest with                       *)
(* d(n+1) = hmac(parent chain code, 0x01 || I_R of d(n) || index), whose   *)
(* I_L is a scalar below the order and whose child point is not the        *)
(* identity; zero is accepted as I_L; key and index do not change.         *)
ShiftRejectionSampling ==
    (op \in ShiftOps /\ pc = "idle" /\ ret.ok) =>
        LET k == ArgParentPublicKey.chain_code
            pp == ArgParentPublicKey.public_key
            n == Cardinality(rejected)
            d == RefShiftChain(k, msg0[1], ArgIndex, n)
            shift == [shift |-> RefLeft(d),
                      child_public_key |->
                          [public_key |-> RefChildPoint(pp, d),
                           chain_code |-> RefRight(d)]]
        IN  /\ RefShiftOk(pp, d)
            /\ \A m \in 0 .. n - 1 :
                   /\ ~RefShiftOk(pp, RefShiftChain(k, msg0[1], ArgIndex, m))
                   /\ RefShiftChain(k, msg0[1], ArgIndex, m) \in rejected
            /\ op \in {"derive_hardened_shift", "derive_public_shift"} =>
                   ret.value[1] = shift
            /\ op = "derive_child_public_key" =>
                   ret.value[1] = shift.child_public_key
            /\ op = "derive_child_key_pair" =>
                   ret.value[1].public_key = shift.child_public_key
            /\ cs[1].hmac = k
            /\ cs[1].child_index = ArgIndex
            /\ \A m \in retryMsgs :
                   SubSeq(m, Len(m) - 3, Len(m)) = RefIndexBytes(ArgIndex)

\* A shift of zero came back after an earlier digest was rejected.
ShiftRejectionSamplingWitness ==
    /\ Returned("derive_public_shift")
    /\ ret.value[1].shift = 0
    /\ rejected # {}

(* C10: the first digest of derive_hardened_shift is                       *)
(* hmac(parent chain code, 0x00 || parent secret key, big-endian || index, *)
(* big-endian, as it is), that of derive_public_shift is                   *)
(* hmac(parent chain code, compressed parent public key || index,          *)
(* big-endian); calculate_shift gets that key, the parent's public key and *)
(* the same index.                                                         *)
InitialDigestLayout ==
    (op \in ShiftOps /\ pc # "panic") =>
        LET m == msg0[1]
            cc == ArgParentPublicKey.chain_code
            tail == SubSeq(m, Len(m) - 3, Len(m))
        IN  /\ key = Some(cc)
            /\ cs = Some([hmac |-> cc,
                          parent_public_key |-> ArgParentPublicKey,
                          child_index |-> ArgIndex])
            /\ FromBe(SubSeq(tail, 1, 2), 256) = ArgIndex[1]
            /\ FromBe(SubSeq(tail, 3, 4), 256) = ArgIndex[2]
            /\ (rejected = {} /\ pc = "calculate_shift") => i = Some(HmacSha512(cc, m))
            /\ fn = "derive_hardened_shift" =>
                   /\ Len(m) = 1 + ScalarLen + 4
                   /\ m[1] = 0
                   /\ FromBe(SubSeq(m, 2, 1 + ScalarLen), ByteBase)
                          = args[1].parent_key.secret_key.secret_key
                   /\ ArgIndex[1] >= 2^15
            /\ fn = "derive_public_shift" =>
                   /\ Len(m) = 1 + PointLen + 4
                   /\ m[1] = 2 + (ArgParentPublicKey.public_key % 2)
                   /\ FromBe(SubSeq(m, 2, 1 + PointLen), ByteBase)
                          = ArgParentPublicKey.public_key

\* derive_hardened_shift made its first digest for the index 2^31 + 1.
InitialDigestLayoutWitness ==
    /\ op = "derive_hardened_shift"
    /\ pc = "calculate_shift"
    /\ rejected = {}
    /\ args[1].child_index.v = <<2^15, 1>>

============================================================================
